---- MODULE Spec2Model ----
(***************************************************************************)
(* A model of pybif6's BIF6 decoder (src/src/pybif6/parser.py).            *)
(*                                                                         *)
(* One parser session over one file.  The file is a sequence of bytes      *)
(* (0..255); the file object is its cursor `pos` and its closed flag.      *)
(* The three operations of BIF6FileParser are the actions: the            *)
(* constructor (BIF6FileParser_init), __next__ (BIF6FileParser_next) and   *)
(* close (BIF6FileParser_close).  `last` records what the last call gave   *)
(* back to its caller: a value or the exception it raised.                 *)
(***************************************************************************)
EXTENDS Integers, Sequences, FiniteSets, TLC

VARIABLES
    file,         \* the bytes of the file on disk (never written)
    pos,          \* self._file's cursor: bytes consumed so far
    fstate,       \* self._file: "none" before open(), "open", "closed"
    pc,           \* "new": not constructed; "opened": __init__ returned;
                  \* "open_failed": __init__ raised, the caller holds no object
    n_intervals,  \* self._n_intervals (-1: attribute not set)
    n_x_pixels,   \* self._n_x_pixels  (-1: attribute not set)
    n_y_pixels,   \* self._n_y_pixels  (-1: attribute not set)
    last,         \* outcome of the last call: [op, kind, interval]
    produced,     \* history: number of BIF6Interval values returned so far
    stopped,      \* history: StopIteration has been raised at least once
    userClosed,   \* history: the caller has called close()
    failed,       \* history: __next__ has raised 'Incomplete BIF6 interval'
    byteorder     \* sys.byteorder of the host that runs the parser

vars == <<file, pos, fstate, pc, n_intervals, n_x_pixels, n_y_pixels,
          last, produced, stopped, userClosed, failed, byteorder>>

----------------------------------------------------------------------------
(* Bounds of the explored inputs.                                          *)

MaxWidth == 2
MaxHeight == 2
MaxRecords == 2

----------------------------------------------------------------------------
(* Constants of the format.                                                *)

\* struct.Struct('<6s3H').size: 6 + 3*2, no padding under '<'
_BIF6_HEADER_size == 12

_BIF6_MAGIC == <<0, 0, 66, 73, 70, 54>>

\* struct.Struct('<I3f').size: 4 + 3*4
_MZ_BIN_HEADER_size == 16

\* np.uint32 item size; also the literal 4 of `n_pixels * 4`
PixelBytes == 4

----------------------------------------------------------------------------
(* Byte-level decoding.                                                    *)

\* '<H': unsigned 16-bit little-endian at byte offset off (0-based) of b
U16LE(b, off) == b[off + 1] + 256 * b[off + 2]

\* '<I': unsigned 32-bit little-endian at byte offset off (0-based) of b
U32LE(b, off) ==
    b[off + 1] + 256 * b[off + 2] + 65536 * b[off + 3] + 16777216 * b[off + 4]

\* unsigned 32-bit big-endian at byte offset off (0-based) of b
U32BE(b, off) ==
    b[off + 4] + 256 * b[off + 3] + 65536 * b[off + 2] + 16777216 * b[off + 1]

\* np.uint32 names no byte order: a uint32 item is read in the byte order of
\* the host, little-endian or big-endian
U32Native(order, b, off) ==
    IF order = "little" THEN U32LE(b, off) ELSE U32BE(b, off)

\* '<f': an IEEE-754 single.  Integers cannot hold the float, so the model
\* keeps the field's 32-bit pattern, which determines it.
F32LE(b, off) == U32LE(b, off)

\* _BIF6_HEADER.unpack(header): (magic, intervals, x_pixels, y_pixels)
BIF6_HEADER_unpack(header) ==
    [magic    |-> SubSeq(header, 1, 6),
     invernals |-> U16LE(header, 6),
     x_pixels |-> U16LE(header, 8),
     y_pixels |-> U16LE(header, 10)]

\* _MZ_BIN_HEADER.unpack(data): (interval_id, mz_lower, mz_middle, mz_upper)
MZ_BIN_HEADER_unpack(data) ==
    [interval_id |-> U32LE(data, 0),
     mz_lower    |-> F32LE(data, 4),
     mz_middle   |-> F32LE(data, 8),
     mz_upper    |-> F32LE(data, 12)]

\* a faulty read that, past the header, always reads from the first record
Mutant_FileRead_FromFirstRecord(f, p, n) ==
    IF p < _BIF6_HEADER_size
    THEN SubSeq(f, p + 1, IF p + n <= Len(f) THEN p + n ELSE Len(f))
    ELSE SubSeq(f, _BIF6_HEADER_size + 1,
                IF _BIF6_HEADER_size + n <= Len(f) THEN _BIF6_HEADER_size + n
                                                   ELSE Len(f))

\* file.read(n) at cursor p: the next n bytes, fewer at end of file
FileRead(f, p, n) ==
    SubSeq(f, p + 1, IF p + n <= Len(f) THEN p + n ELSE Len(f))

----------------------------------------------------------------------------
(* numpy arrays: a shape and nested 1-based rows, a[i+1][j+1] = arr[i][j]. *)

\* np.frombuffer(buf, dtype=np.uint32): the flat array of the buffer's
\* 4-byte items, each read in the host's byte order
np_frombuffer(buf) ==
    [i \in 1..(Len(buf) \div PixelBytes) |->
        U32Native(byteorder, buf, PixelBytes * (i - 1))]

\* flat.reshape((rows, cols)): C order, element (r, c) is flat[r*cols + c]
np_reshape(flat, rows, cols) ==
    [shape |-> <<rows, cols>>,
     a     |-> [r \in 1..rows |-> [c \in 1..cols |-> flat[(r - 1) * cols + c]]]]

\* a faulty arr.T that leaves the array as it is
Mutant_np_T_Identity(arr) == arr

\* arr.T: element (i, j) of the transpose is element (j, i) of arr
np_T(arr) ==
    [shape |-> <<arr.shape[2], arr.shape[1]>>,
     a     |-> [i \in 1..arr.shape[2] |->
                   [j \in 1..arr.shape[1] |-> arr.a[j][i]]]]

\* a faulty decode that reshapes straight to (x, y) and never transposes
Mutant_DecodeImage_NoTranspose(interval_data, x_pixels, y_pixels) ==
    np_reshape(
        np_frombuffer(SubSeq(interval_data, _MZ_BIN_HEADER_size + 1,
                             Len(interval_data))),
        x_pixels, y_pixels)

\* image = np.frombuffer(interval_data[16:], uint32).reshape((y, x)).T
DecodeImage(interval_data, x_pixels, y_pixels) ==
    np_T(np_reshape(
        np_frombuffer(SubSeq(interval_data, _MZ_BIN_HEADER_size + 1,
                             Len(interval_data))),
        y_pixels, x_pixels))

\* BIF6Interval(id=..., mz_lower=..., mz_middle=..., mz_upper=..., image=...)
DecodeInterval(interval_data, x_pixels, y_pixels) ==
    LET h == MZ_BIN_HEADER_unpack(SubSeq(interval_data, 1, _MZ_BIN_HEADER_size))
    IN  [id        |-> h.interval_id,
         mz_lower  |-> h.mz_lower,
         mz_middle |-> h.mz_middle,
         mz_upper  |-> h.mz_upper,
         image     |-> DecodeImage(interval_data, x_pixels, y_pixels)]

\* the `interval` field of an outcome that carries no interval
NoInterval ==
    [id |-> -1, mz_lower |-> -1, mz_middle |-> -1, mz_upper |-> -1,
     image |-> [shape |-> <<0, 0>>, a |-> <<>>]]

----------------------------------------------------------------------------
(* BIF6Interval.is_tic_image                                               *)

\* Python values of two kinds, so that an int and a function can be compared
PyInt(n) == [tag |-> "int", v |-> n]

\* the name `id` inside is_tic_image: no local or module global of that name
\* exists, so it is the builtin function id
BuiltinId == [tag |-> "builtin_function_or_method", v |-> 0]

\* return id == 0
is_tic_image(self) == BuiltinId = PyInt(0)

----------------------------------------------------------------------------
(* Accessors of the session.                                               *)

\* BIF6FileParser.interval_count
interval_count == n_intervals

\* BIF6FileParser.image_size
image_size == <<n_x_pixels, n_y_pixels>>

\* the size __next__ asks read() for
RecordSize(x_pixels, y_pixels) ==
    _MZ_BIN_HEADER_size + (x_pixels * y_pixels) * PixelBytes

Outcome(op, kind, interval) == [op |-> op, kind |-> kind, interval |-> interval]

----------------------------------------------------------------------------
(* Outcomes: what a call hands back to its caller.                         *)

\* assert len(header) == _BIF6_HEADER.size, 'Invalid BIF6 header. ...'
TruncatedHeader == "AssertionError: Invalid BIF6 header. Not a BIF6 file?"

\* assert magic == _BIF6_MAGIC, 'Invalid BIF6 magic. ...'
BadMagic == "AssertionError: Invalid BIF6 magic. Not a BIF6 file?"

\* assert len(interval_data) == ..., 'Incomplete BIF6 interval'
TruncatedInterval == "AssertionError: Incomplete BIF6 interval"

\* read() on a closed file object
ClosedFileError == "ValueError: read of closed file"

\* raise StopIteration
EndOfSequence == "StopIteration"

\* return BIF6Interval(...)
ReturnedInterval == "BIF6Interval"

\* __init__ and close() return None
ReturnedNone == "None"

----------------------------------------------------------------------------
(* The files explored: a header and MaxRecords records, written in the     *)
(* layout of the format, with one byte of the magic possibly altered, and  *)
(* cut at any length.                                                      *)

EncU16(v) == <<v % 256, (v \div 256) % 256>>

EncU32(v) ==
    <<v % 256, (v \div 256) % 256, (v \div 65536) % 256, (v \div 16777216) % 256>>

RECURSIVE ConcatAll(_)
ConcatAll(seqs) ==
    IF seqs = <<>> THEN <<>> ELSE Head(seqs) \o ConcatAll(Tail(seqs))

\* the magic with byte `at` (1..6) altered; at = 0 leaves it intact
MagicVariant(at) ==
    [i \in 1..6 |-> IF i = at THEN (_BIF6_MAGIC[i] + 1) % 256 ELSE _BIF6_MAGIC[i]]

\* the three m/z fields of every generated record: 1.0, 2.0, 3.0 as '<f'
MzBytes == <<0, 0, 128, 63,  0, 0, 0, 64,  0, 0, 64, 64>>

\* the i-th pixel (1-based, physical order) of the k-th record: all distinct
PixelValue(seed, k, i, n) == seed * ((k - 1) * n + i)

RecordBytes(id0, seed, k, n) ==
    EncU32(id0 + k - 1) \o MzBytes
        \o ConcatAll([i \in 1..n |-> EncU32(PixelValue(seed, k, i, n))])

FullFile(at, cnt, w, h, id0, seed) ==
    MagicVariant(at) \o EncU16(cnt) \o EncU16(w) \o EncU16(h)
        \o ConcatAll([k \in 1..MaxRecords |-> RecordBytes(id0, seed, k, w * h)])

\* declared interval counts: below, at and above the records present; the
\* last is FF 80, top bit set and two different bytes
CountSet == {0, 1, 33023}

\* <<id of the first record, pixel seed>>; every generated value stays
\* below 2^31, the largest integer the model checker computes with
ContentSet == {<<0, 1>>, <<1, 1>>, <<2130772737, 16909060>>}

InputFiles ==
    UNION { LET full == FullFile(at, cnt, w, h, c[1], c[2])
            IN  { SubSeq(full, 1, n) : n \in 0..Len(full) } :
            at \in 0..6, cnt \in CountSet, w \in 1..MaxWidth,
            h \in 1..MaxHeight, c \in ContentSet }

\* the byte orders of the hosts Python and numpy run on
HostByteOrders == {"little", "big"}

----------------------------------------------------------------------------
(* The session.                                                            *)

Init ==
    /\ file \in InputFiles
    /\ pos = 0
    /\ fstate = "none"
    /\ pc = "new"
    /\ n_intervals = -1
    /\ n_x_pixels = -1
    /\ n_y_pixels = -1
    /\ last = Outcome("none", ReturnedNone, NoInterval)
    /\ produced = 0
    /\ stopped = FALSE
    /\ userClosed = FALSE
    /\ failed = FALSE
    /\ byteorder \in HostByteOrders

\* a faulty __init__ that never compares the magic
Mutant_InitOutcome_NoMagic(header) ==
    IF Len(header) # _BIF6_HEADER_size THEN TruncatedHeader ELSE ReturnedNone

\* the outcome of __init__ on the bytes read(_BIF6_HEADER.size) returned
InitOutcome(header) ==
    IF Len(header) # _BIF6_HEADER_size THEN TruncatedHeader
    ELSE IF BIF6_HEADER_unpack(header).magic # _BIF6_MAGIC THEN BadMagic
    ELSE ReturnedNone

\* BIF6FileParser.__init__(file), also parse_bif6(file)
BIF6FileParser_init ==
    /\ pc = "new"
    /\ LET header == FileRead(file, 0, _BIF6_HEADER_size)
           out    == InitOutcome(header)
       IN  /\ fstate' = "open"
           /\ pos' = Len(header)
           /\ last' = Outcome("open", out, NoInterval)
           /\ IF out = ReturnedNone
              THEN /\ pc' = "opened"
                   /\ n_intervals' = BIF6_HEADER_unpack(header).invernals
                   /\ n_x_pixels' = BIF6_HEADER_unpack(header).x_pixels
                   /\ n_y_pixels' = BIF6_HEADER_unpack(header).y_pixels
              ELSE /\ pc' = "open_failed"
                   /\ UNCHANGED <<n_intervals, n_x_pixels, n_y_pixels>>
    /\ UNCHANGED <<byteorder, file, produced, stopped, userClosed, failed>>

\* a faulty __next__ that takes a short read for the end of the file
Mutant_NextOutcome_PartialIsEnd(interval_data, size) ==
    IF Len(interval_data) # size THEN EndOfSequence ELSE ReturnedInterval

\* a faulty __next__ that stops after the declared number of intervals
Mutant_NextOutcome_Counted(interval_data, size) ==
    IF Len(interval_data) = 0 \/ produced >= n_intervals THEN EndOfSequence
    ELSE IF Len(interval_data) # size THEN TruncatedInterval
    ELSE ReturnedInterval

\* the outcome of __next__ on the bytes read(size) returned
NextOutcome(interval_data, size) ==
    IF Len(interval_data) = 0 THEN EndOfSequence
    ELSE IF Len(interval_data) # size THEN TruncatedInterval
    ELSE ReturnedInterval

\* a faulty __next__ that leaves the file open at the end of the file
Mutant_FileStateAfter_NoClose(out, fs) == fs

\* if len(interval_data) == 0: self.close(): the file object's state after
\* a read with outcome `out`
FileStateAfter(out, fs) == IF out = EndOfSequence THEN "closed" ELSE fs

\* a faulty __next__ that, at the end of the file, rewinds to the first
\* record instead of closing
Mutant_next_Restart ==
    /\ pc = "opened"
    /\ IF fstate = "closed"
       THEN /\ last' = Outcome("next", ClosedFileError, NoInterval)
            /\ UNCHANGED <<pos, fstate, produced, stopped, failed>>
       ELSE LET size == RecordSize(n_x_pixels, n_y_pixels)
                interval_data == FileRead(file, pos, size)
                out == NextOutcome(interval_data, size)
            IN  /\ pos' = IF out = EndOfSequence THEN _BIF6_HEADER_size
                                                 ELSE pos + Len(interval_data)
                /\ fstate' = fstate
                /\ stopped' = (stopped \/ out = EndOfSequence)
                /\ failed' = (failed \/ out = TruncatedInterval)
                /\ IF out = ReturnedInterval
                   THEN /\ last' = Outcome("next", out,
                              DecodeInterval(interval_data, n_x_pixels, n_y_pixels))
                        /\ produced' = produced + 1
                   ELSE /\ last' = Outcome("next", out, NoInterval)
                        /\ UNCHANGED produced
    /\ UNCHANGED <<byteorder, file, pc, n_intervals, n_x_pixels, n_y_pixels, userClosed>>

\* a faulty __next__ that keeps in _n_intervals the number of intervals left
Mutant_next_CountDown ==
    /\ pc = "opened"
    /\ IF fstate = "closed"
       THEN /\ last' = Outcome("next", ClosedFileError, NoInterval)
            /\ UNCHANGED <<pos, fstate, produced, stopped, failed, n_intervals>>
       ELSE LET size == RecordSize(n_x_pixels, n_y_pixels)
                interval_data == FileRead(file, pos, size)
                out == NextOutcome(interval_data, size)
            IN  /\ pos' = pos + Len(interval_data)
                /\ fstate' = FileStateAfter(out, fstate)
                /\ stopped' = (stopped \/ out = EndOfSequence)
                /\ failed' = (failed \/ out = TruncatedInterval)
                /\ IF out = ReturnedInterval
                   THEN /\ last' = Outcome("next", out,
                              DecodeInterval(interval_data, n_x_pixels, n_y_pixels))
                        /\ produced' = produced + 1
                        /\ n_intervals' = n_intervals - 1
                   ELSE /\ last' = Outcome("next", out, NoInterval)
                        /\ UNCHANGED <<produced, n_intervals>>
    /\ UNCHANGED <<byteorder, file, pc, n_x_pixels, n_y_pixels, userClosed>>

\* BIF6FileParser.__next__()
BIF6FileParser_next ==
    /\ pc = "opened"
    /\ IF fstate = "closed"
       THEN /\ last' = Outcome("next", ClosedFileError, NoInterval)
            /\ UNCHANGED <<pos, fstate, produced, stopped, failed>>
       ELSE LET size == RecordSize(n_x_pixels, n_y_pixels)
                interval_data == FileRead(file, pos, size)
                out == NextOutcome(interval_data, size)
            IN  /\ pos' = pos + Len(interval_data)
                /\ fstate' = FileStateAfter(out, fstate)
                /\ stopped' = (stopped \/ out = EndOfSequence)
                /\ failed' = (failed \/ out = TruncatedInterval)
                /\ IF out = ReturnedInterval
                   THEN /\ last' = Outcome("next", out,
                              DecodeInterval(interval_data, n_x_pixels, n_y_pixels))
                        /\ produced' = produced + 1
                   ELSE /\ last' = Outcome("next", out, NoInterval)
                        /\ UNCHANGED produced
    /\ UNCHANGED <<byteorder, file, pc, n_intervals, n_x_pixels, n_y_pixels, userClosed>>

\* a faulty close() that does not close the file object
Mutant_close_NoOp ==
    /\ pc = "opened"
    /\ userClosed' = TRUE
    /\ last' = Outcome("close", ReturnedNone, NoInterval)
    /\ UNCHANGED <<byteorder, file, pos, fstate, pc, n_intervals, n_x_pixels, n_y_pixels,
                   produced, stopped, failed>>

\* BIF6FileParser.close(): closing a closed file object is a no-op
BIF6FileParser_close ==
    /\ pc = "opened"
    /\ fstate' = "closed"
    /\ userClosed' = TRUE
    /\ last' = Outcome("close", ReturnedNone, NoInterval)
    /\ UNCHANGED <<byteorder, file, pos, pc, n_intervals, n_x_pixels, n_y_pixels,
                   produced, stopped, failed>>

Next ==
    \/ BIF6FileParser_init
    \/ BIF6FileParser_next
    \/ BIF6FileParser_close

Spec == Init /\ [][Next]_vars

----------------------------------------------------------------------------
(* The header and the records as the file's bytes give them, read off the  *)
(* file directly and not through the decoder.                              *)

FileCount  == file[7] + 256 * file[8]
FileWidth  == file[9] + 256 * file[10]
FileHeight == file[11] + 256 * file[12]

\* bytes between the cursor and the end of the file
Remaining == Len(file) - pos

\* the size of one record of this file: 16 + width*height*4
FileRecordSize == 16 + FileWidth * FileHeight * 4

\* the four bytes of the stored pixel at linear index i (0-based) of the
\* record that starts at byte offset start of the file
StoredPixelBytes(start, i) ==
    SubSeq(file, start + 16 + 4 * i + 1, start + 16 + 4 * i + 4)

\* the value of four bytes as one 32-bit item of the host
HostItem(b4) ==
    IF byteorder = "little"
    THEN b4[1] + 256 * b4[2] + 65536 * b4[3] + 16777216 * b4[4]
    ELSE b4[4] + 256 * b4[3] + 65536 * b4[2] + 16777216 * b4[1]

\* the stored pixel at linear index i (0-based) of the record that starts at
\* byte offset start of the file: the item its four bytes make on the host
StoredPixel(start, i) == HostItem(StoredPixelBytes(start, i))

\* the last call was a next() that returned an interval
GotInterval == last.op = "next" /\ last.kind = ReturnedInterval

----------------------------------------------------------------------------
(* C1 *)

\* C1 as stated, with a header of 11 bytes: open fails with TruncatedHeader
\* below 11 bytes, with BadMagic at 11 or more bytes and a wrong magic, and
\* succeeds in every other case.
C1_Original ==
    last.op = "open" =>
        IF Len(file) < 11 THEN last.kind = TruncatedHeader /\ pc = "open_failed"
        ELSE IF SubSeq(file, 1, 6) # <<0, 0, 66, 73, 70, 54>>
             THEN last.kind = BadMagic /\ pc = "open_failed"
             ELSE last.kind = ReturnedNone /\ pc = "opened"

\* C1 (amended): the header is 12 bytes.  open fails with TruncatedHeader
\* when the file has fewer than 12 bytes, with BadMagic when it has 12 or
\* more and its first 6 bytes differ from 00 00 42 49 46 36, and in every
\* other case returns a session holding the header's interval_count, width
\* and height.
C1_OpenOutcome ==
    last.op = "open" =>
        IF Len(file) < 12
        THEN last.kind = TruncatedHeader /\ pc = "open_failed"
        ELSE IF SubSeq(file, 1, 6) # <<0, 0, 66, 73, 70, 54>>
             THEN last.kind = BadMagic /\ pc = "open_failed"
             ELSE /\ last.kind = ReturnedNone
                  /\ pc = "opened"
                  /\ interval_count = FileCount
                  /\ image_size = <<FileWidth, FileHeight>>

\* open has succeeded on a file of exactly 12 bytes
C1_Witness ==
    last.op = "open" /\ Len(file) = 12 /\ pc = "opened" /\ interval_count = 33023

----------------------------------------------------------------------------
(* C2 *)

\* C2: for every interval next() returns, image[x][y] is the pixel stored
\* at linear index y*width + x of the record just read, for all x below
\* width and y below height.
C2_Transpose ==
    GotInterval =>
        \A x \in 0..(FileWidth - 1) : \A y \in 0..(FileHeight - 1) :
            last.interval.image.a[x + 1][y + 1]
                = StoredPixel(pos - FileRecordSize, y * FileWidth + x)

\* a 2 x 2 image whose two off-diagonal pixels differ has been returned
C2_Witness ==
    /\ GotInterval
    /\ FileWidth = 2 /\ FileHeight = 2
    /\ last.interval.image.a[1][2] # last.interval.image.a[2][1]
    /\ last.interval.image.a[1][2] = StoredPixel(pos - FileRecordSize, 2)

----------------------------------------------------------------------------
(* C3 *)

\* C3: every interval next() returns has an image of shape (width, height),
\* the pair image_size gives: width rows of height entries each.
C3_Shape ==
    GotInterval =>
        /\ last.interval.image.shape = image_size
        /\ last.interval.image.shape = <<FileWidth, FileHeight>>
        /\ Len(last.interval.image.a) = FileWidth
        /\ \A i \in 1..Len(last.interval.image.a) :
               Len(last.interval.image.a[i]) = FileHeight

\* the second interval of a file that declares no interval, 1 wide, 2 high
C3_Witness ==
    /\ GotInterval
    /\ produced = 2
    /\ interval_count = 0
    /\ last.interval.image.shape = <<1, 2>>

----------------------------------------------------------------------------
(* C4 *)

\* C4: a next() on an open source with more than zero and fewer than
\* 16 + width*height*4 bytes left fails with TruncatedInterval and returns
\* no interval.
C4_TruncatedInterval ==
    [][(BIF6FileParser_next /\ fstate = "open"
            /\ Remaining > 0 /\ Remaining < FileRecordSize)
        => (/\ last'.kind = TruncatedInterval
            /\ last'.interval = NoInterval
            /\ produced' = produced)]_vars

\* next() has failed on a partial second record
C4_Witness ==
    /\ last.op = "next" /\ last.kind = TruncatedInterval
    /\ produced = 1
    /\ (Len(file) - 12) % FileRecordSize # 0

----------------------------------------------------------------------------
(* C5 *)

\* the number of records a body of complete records holds
BodyRecords == (Len(file) - 12) \div FileRecordSize

\* C5: on a file whose body is exactly n complete records, each next() on
\* the open source returns an interval while fewer than n were returned and
\* signals end-of-sequence once n were, whatever interval_count declares.
C5_CountIgnored ==
    [][(BIF6FileParser_next /\ fstate = "open"
            /\ (Len(file) - 12) % FileRecordSize = 0)
        => (IF produced < BodyRecords
            THEN last'.kind = ReturnedInterval /\ produced' = produced + 1
            ELSE /\ last'.kind = EndOfSequence
                 /\ produced' = produced
                 /\ produced = BodyRecords)]_vars

\* end-of-sequence after 2 intervals of a file that declares none
C5_Witness ==
    /\ last.op = "next" /\ last.kind = EndOfSequence
    /\ produced = 2 /\ BodyRecords = 2
    /\ interval_count = 0

----------------------------------------------------------------------------
(* C6 *)

\* C6: after close(), every next() fails with an error: it returns no
\* interval, reads no byte and signals no end-of-sequence.
C6_NextAfterClose ==
    [][(BIF6FileParser_next /\ userClosed)
        => (/\ last'.kind = ClosedFileError
            /\ last'.interval = NoInterval
            /\ pos' = pos
            /\ produced' = produced
            /\ stopped' = stopped)]_vars

\* next() was rejected after a close() that left records unread
C6_Witness ==
    /\ userClosed
    /\ last.op = "next" /\ last.kind = ClosedFileError
    /\ ~stopped
    /\ Remaining >= FileRecordSize

----------------------------------------------------------------------------
(* C7 *)

\* C7: once next() has signalled end-of-sequence, a later next() returns no
\* interval: it signals end-of-sequence again or is rejected as closed.
C7_NoRestart ==
    [][(BIF6FileParser_next /\ stopped)
        => (/\ last'.kind \in {EndOfSequence, ClosedFileError}
            /\ last'.interval = NoInterval
            /\ produced' = produced)]_vars

\* next() was called again after the end of a sequence of 2 intervals
C7_Witness ==
    /\ stopped /\ ~userClosed
    /\ last.op = "next" /\ last.kind = ClosedFileError
    /\ produced = 2

----------------------------------------------------------------------------
(* C8 *)

\* C8: a next() that finds no byte left signals end-of-sequence and closes
\* the source in that step, with no close() by the caller; a next() that
\* returns an interval leaves the source open.
C8_AutoClose ==
    [][(BIF6FileParser_next /\ fstate = "open")
        => (/\ (Remaining = 0 =>
                   /\ last'.kind = EndOfSequence
                   /\ fstate' = "closed"
                   /\ ~userClosed')
            /\ (last'.kind = ReturnedInterval => fstate' = "open")
            /\ (fstate' = "closed" => Remaining = 0))]_vars

\* the source was closed by next() at the end of a file of 1 record
C8_Witness ==
    /\ last.op = "next" /\ last.kind = EndOfSequence
    /\ fstate = "closed" /\ ~userClosed
    /\ produced = 1

----------------------------------------------------------------------------
(* C9 *)

\* C9: is_tic_image() of a returned interval is true when its id is 0 and
\* false when its id is not 0.
C9_IsTicImage ==
    GotInterval => (is_tic_image(last.interval) <=> last.interval.id = 0)

----------------------------------------------------------------------------
(* C10 *)

\* C10: in an opened session, after any next() and close() calls,
\* interval_count and image_size are the values of the header's bytes, and
\* the header's 12 bytes have been read once: no step changes them or moves
\* the cursor back into the header.
C10_HeaderImmutable ==
    pc = "opened" =>
        /\ interval_count = FileCount
        /\ image_size = <<FileWidth, FileHeight>>
        /\ pos >= 12

\* two intervals returned and the source closed, the header says 33023
C10_Witness ==
    /\ pc = "opened"
    /\ produced = 2 /\ userClosed
    /\ interval_count = 33023
    /\ image_size = <<2, 1>>

----------------------------------------------------------------------------
(* C11 *)

\* C11: when next() fails with TruncatedInterval, the byte source is closed
\* by that failure: after it the session holds no open source.
C11_ReleasedOnTruncation ==
    (last.op = "next" /\ last.kind = TruncatedInterval) => fstate = "closed"

----------------------------------------------------------------------------
(* C12 *)

\* the id field of the record that starts at byte offset start of the file
StoredId(start) ==
    file[start + 1] + 256 * file[start + 2] + 65536 * file[start + 3]
        + 16777216 * file[start + 4]

\* C12: after a successful open the cursor is right after the 12-byte
\* header; after the k-th successful next() it is right after the k-th
\* record, and the interval returned has the id and the pixels of the k-th
\* record's bytes.
C12_InOrder ==
    /\ (last.op = "open" /\ pc = "opened") => pos = 12
    /\ GotInterval =>
         /\ pos = 12 + produced * FileRecordSize
         /\ pos <= Len(file)
         /\ last.interval.id = StoredId(12 + (produced - 1) * FileRecordSize)
         /\ \A x \in 0..(FileWidth - 1) : \A y \in 0..(FileHeight - 1) :
                last.interval.image.a[x + 1][y + 1]
                    = StoredPixel(12 + (produced - 1) * FileRecordSize,
                                  y * FileWidth + x)

\* the second next() has returned the second record, whose id is not the
\* first record's
C12_Witness ==
    /\ GotInterval
    /\ produced = 2
    /\ last.interval.id = StoredId(12 + FileRecordSize)
    /\ last.interval.id # StoredId(12)

----------------------------------------------------------------------------
(* C13 *)

\* C13: once next() has failed with TruncatedInterval, no later next()
\* returns an interval or signals a clean end-of-sequence.
C13_FailedTerminal ==
    [][failed =>
         /\ (BIF6FileParser_next =>
                last'.kind \notin {ReturnedInterval, EndOfSequence})
         /\ produced' = produced
         /\ stopped' = stopped]_vars

----------------------------------------------------------------------------
(* C14 *)

\* C14: whenever the byte source is open, after a successful or a failed
\* open and after any next(), the caller can call close(), which closes it
\* without error; and once the source is closed no step reopens it or
\* returns another interval.
C14_ClosedReachableTerminal ==
    /\ [](fstate = "open" => ENABLED BIF6FileParser_close)
    /\ [][/\ BIF6FileParser_close =>
               (fstate' = "closed" /\ last'.kind = ReturnedNone)
          /\ fstate = "closed" =>
               (fstate' = "closed" /\ produced' = produced)]_vars

----------------------------------------------------------------------------
(* C15 *)

\* C15: every integer field is the unsigned little-endian value of its
\* bytes: interval_count, width and height are b0 + 256*b1 of the header's
\* bytes at offsets 6, 8 and 10, and of a returned interval the id is
\* b0 + 256*b1 + 65536*b2 + 16777216*b3 of the record's bytes at offset 0
\* and the i-th pixel that of its bytes at offset 16 + 4*i.
C15_LittleEndian ==
    /\ pc = "opened" =>
         /\ interval_count = file[7] + 256 * file[8]
         /\ interval_count >= 0
         /\ image_size[1] = file[9] + 256 * file[10]
         /\ image_size[2] = file[11] + 256 * file[12]
    /\ GotInterval =>
         LET start == pos - FileRecordSize
         IN  /\ last.interval.id
                  = file[start + 1] + 256 * file[start + 2]
                      + 65536 * file[start + 3] + 16777216 * file[start + 4]
             /\ \A i \in 0..(FileWidth * FileHeight - 1) :
                    last.interval.image.a[(i % FileWidth) + 1][(i \div FileWidth) + 1]
                        = file[start + 16 + 4 * i + 1]
                            + 256 * file[start + 16 + 4 * i + 2]
                            + 65536 * file[start + 16 + 4 * i + 3]
                            + 16777216 * file[start + 16 + 4 * i + 4]

====
